---- MODULE Spec2Model ----
(***************************************************************************)
(* Model of src/shared/segmentation.rs (rust-x86): the SegmentSelector     *)
(* bitflags value type, its Display rendering, the segment register        *)
(* loaders, the code-segment reload trampoline set_cs and the reader cs.   *)
(***************************************************************************)
EXTENDS Integers, Sequences, FiniteSets, TLC

VARIABLES
    \* ---- the value type ----
    call,    \* the constructor the caller invokes: "new" or "from_raw"
    index,   \* argument `index` of new
    rpl,     \* argument `rpl` of new
    raw,     \* argument `bits` of from_raw
    via,     \* "none" before construction, then the constructor that ran
    ti,      \* the table flag or-ed into the selector: "none", "TI_GDT", "TI_LDT"
    sel,     \* the SegmentSelector value
    text,    \* the Display output of sel, <<>> before it is rendered
    \* ---- the processor ----
    arch,    \* target_arch of the build: "x86" or "x86_64"
    seg,     \* the segment registers cs, ss, ds, es, fs, gs
    rsp,     \* stack pointer, counted in machine words
    stack,   \* the active stack, one machine word per address
    rax,     \* scratch register of the x86_64 trampoline
    pc,      \* "caller", or the instruction of set_cs about to execute
    arg,     \* operand $0 of set_cs: sel.bits() as usize
    segment, \* the value the last cs() returned
    fault,   \* the processor raised a fault; control left this code
    \* ---- bookkeeping of the run ----
    reads,   \* the last two results of cs() since the last set_cs began, each
             \* with the number of calls made before it
    lastOp,  \* the operation that ran last and its selector
    pre,     \* stack pointer, stack and privilege level when set_cs began
    nops     \* number of loader and set_cs calls made

selVars == <<call, index, rpl, raw, via, ti, sel, text>>

machVars == <<arch, seg, rsp, stack, rax, pc, arg, segment, fault, reads, lastOp, pre, nops>>

vars == <<call, index, rpl, raw, via, ti, sel, text,
          arch, seg, rsp, stack, rax, pc, arg, segment, fault, reads, lastOp, pre, nops>>

(***************************************************************************)
(* u16 arithmetic                                                          *)
(***************************************************************************)
\* width of the `bits: u16` field of SegmentSelector
U16Bits == 16

U16Mod == 2 ^ U16Bits

U16 == 0 .. (U16Mod - 1)

\* `a << n` on u16: bits shifted past bit 15 are discarded
Shl(a, n) == (a * (2 ^ n)) % U16Mod

\* `a >> n` on u16
Shr(a, n) == a \div (2 ^ n)

RECURSIVE BitAnd(_, _)
BitAnd(a, b) ==
    IF a = 0 \/ b = 0 THEN 0
    ELSE (a % 2) * (b % 2) + 2 * BitAnd(a \div 2, b \div 2)

RECURSIVE BitOr(_, _)
BitOr(a, b) ==
    IF a = 0 THEN b
    ELSE IF b = 0 THEN a
    ELSE (IF (a % 2) + (b % 2) > 0 THEN 1 ELSE 0) + 2 * BitOr(a \div 2, b \div 2)

(***************************************************************************)
(* SegmentSelector flags                                                   *)
(***************************************************************************)
\* shared::PrivilegeLevel, Ring0 = 0 .. Ring3 = 3 (rpl as u16)
PrivilegeLevel == 0 .. 3

RPL_0 == 0

RPL_1 == 1

RPL_2 == 2

RPL_3 == 3

TI_GDT == Shl(0, 3)

TI_LDT == Shl(1, 3)

\* number of bits left for the index by `index << 3`
IndexBits == 13

\* largest index that survives `index << 3` in a u16
MaxIndex == (2 ^ IndexBits) - 1

\* bitflags: SegmentSelector { bits: .. }
SegmentSelector == [bits : U16]

\* bitflags accessor bits()
bits(s) == s.bits

\* bitflags contains(): (self.bits & other.bits) == other.bits
contains(s, flag) == BitAnd(s.bits, flag) = flag

\* bitflags `|` operator
bitor(s, flag) == [bits |-> BitOr(s.bits, flag)]

\* new with the index shifted by the width of the privilege field only
new_shift2(i, p) == [bits |-> BitOr(Shl(i, 2), p)]

\* new with the index rotated (index.rotate_left(3)) instead of shifted
new_rotate(i, p) == [bits |-> BitOr(((i * 8) % U16Mod) + ((i * 8) \div U16Mod), p)]

\* SegmentSelector::new
new(i, p) == [bits |-> BitOr(Shl(i, 3), p)]

\* from_raw through bitflags' from_bits_truncate: keeps the named flags only
from_raw_truncate(b) ==
    [bits |-> BitAnd(b, BitOr(BitOr(RPL_1, RPL_2), BitOr(RPL_3, TI_LDT)))]

\* SegmentSelector::from_raw
from_raw(b) == [bits |-> b]

(***************************************************************************)
(* Display                                                                 *)
(***************************************************************************)
DigitChars == <<"0", "1", "2", "3", "4", "5", "6", "7", "8", "9">>

\* `{}` of an unsigned integer: its decimal digits, most significant first
RECURSIVE Dec(_)
Dec(n) ==
    IF n < 10 THEN <<DigitChars[n + 1]>>
    ELSE Append(Dec(n \div 10), DigitChars[(n % 10) + 1])

\* a string argument of write!: the empty string contributes nothing
Frag(s) == IF s = "" THEN <<>> ELSE <<s>>

\* impl fmt::Display for SegmentSelector; the output as its pieces in order
fmt(s) ==
    LET r0 == IF contains(s, RPL_0) THEN "Ring 0 segment selector." ELSE ""
        r1 == IF contains(s, RPL_1) THEN "Ring 1 segment selector." ELSE ""
        r2 == IF contains(s, RPL_2) THEN "Ring 2 segment selector." ELSE ""
        r3 == IF contains(s, RPL_3) THEN "Ring 3 segment selector." ELSE ""
        tbl == IF contains(s, TI_LDT) THEN "LDT Table" ELSE "GDT Table"
    IN  <<"Index ">> \o Dec(Shr(s.bits, 3)) \o <<" in ">> \o Frag(tbl) \o <<", ">>
            \o Frag(r0) \o Frag(r1) \o Frag(r2) \o Frag(r3)

\* the rendering has the piece `frag`
HasFragment(t, frag) == \E k \in 1 .. Len(t) : t[k] = frag

\* the rendering begins with the pieces of `prefix`
BeginsWith(t, prefix) ==
    /\ Len(t) >= Len(prefix)
    /\ SubSeq(t, 1, Len(prefix)) = prefix

RingFragment(n) == <<"Ring 0 segment selector.", "Ring 1 segment selector.",
                     "Ring 2 segment selector.", "Ring 3 segment selector.">>[n + 1]

(***************************************************************************)
(* Bounds of the model                                                     *)
(***************************************************************************)
\* words of the active stack
StackWords == 4

\* loader and set_cs calls in one run
MaxOps == 2

\* descriptor index of the selectors handed to the loaders and to set_cs
ArgIndex == 1

\* descriptor index of the code segment the run starts in
BootIndex == 2

(***************************************************************************)
(* The processor                                                           *)
(***************************************************************************)
SegRegs == {"cs", "ss", "ds", "es", "fs", "gs"}

DataRegs == {"ds", "es", "fs", "gs"}

StackAddrs == 0 .. (StackWords - 1)

\* address of the local label `1:` that follows the far return
Label1 == 4096

\* selectors the callers pass: one descriptor at each privilege level
SelArgs == {new(ArgIndex, p) : p \in PrivilegeLevel}

\* requested privilege level of a raw selector (bits 1-0)
RplOf(b) == b % 4

\* current privilege level: the low two bits of cs
Cpl(s) == RplOf(s["cs"])

\* the value type is not in use
Idle ==
    /\ call = "none" /\ index = 0 /\ rpl = 0 /\ raw = 0
    /\ via = "none" /\ ti = "none" /\ sel = [bits |-> 0] /\ text = <<>>

\* what the words of the caller's stack may hold before the call: zero, or
\* a value that reads as a ring-3 selector
CallerWords == {0, bits(new(ArgIndex, 3))}

\* a null selector: index 0 in the global table, any privilege bits
IsNull(b) == b < 4

Boot ==
    /\ seg = [r \in SegRegs |-> IF r = "cs" THEN bits(new(BootIndex, 0)) ELSE 0]
    /\ \E w \in CallerWords : stack = [a \in StackAddrs |-> w]
    /\ rax = 0
    /\ pc = "caller"
    /\ arg = 0
    /\ segment = [bits |-> 0]
    /\ fault = FALSE
    /\ reads = <<>>
    /\ lastOp = [name |-> "none", bits |-> 0]
    /\ pre = [rsp |-> rsp, stack |-> stack, cpl |-> Cpl(seg)]
    /\ nops = 0

(***************************************************************************)
(* The value type as a state machine: a caller constructs a selector,      *)
(* may or a table flag into it and may render it.                          *)
(***************************************************************************)
\* the processor while only the value type is exercised
Parked == arch = "x86_64" /\ rsp = StackWords /\ Boot /\ stack[0] = 0

InitSel ==
    /\ \/ call = "new" /\ index \in 0 .. MaxIndex /\ rpl \in PrivilegeLevel /\ raw = 0
       \/ call = "from_raw" /\ raw \in U16 /\ index = 0 /\ rpl = 0
    /\ via = "none"
    /\ ti = "none"
    /\ sel = [bits |-> 0]
    /\ text = <<>>
    /\ Parked

\* new is const fn over all of u16: the caller may pass any index
InitWide ==
    /\ call = "new" /\ index \in U16 /\ rpl \in PrivilegeLevel /\ raw = 0
    /\ via = "none"
    /\ ti = "none"
    /\ sel = [bits |-> 0]
    /\ text = <<>>
    /\ Parked

SelNew ==
    /\ call = "new" /\ via = "none"
    /\ sel' = new(index, rpl)
    /\ via' = "new"
    /\ UNCHANGED <<call, index, rpl, raw, ti, text>>
    /\ UNCHANGED machVars

SelFromRaw ==
    /\ call = "from_raw" /\ via = "none"
    /\ sel' = from_raw(raw)
    /\ via' = "from_raw"
    /\ UNCHANGED <<call, index, rpl, raw, ti, text>>
    /\ UNCHANGED machVars

SelOrGdt ==
    /\ via = "new" /\ ti = "none" /\ text = <<>>
    /\ sel' = bitor(sel, TI_GDT)
    /\ ti' = "TI_GDT"
    /\ UNCHANGED <<call, index, rpl, raw, via, text>>
    /\ UNCHANGED machVars

SelOrLdt ==
    /\ via = "new" /\ ti = "none" /\ text = <<>>
    /\ sel' = bitor(sel, TI_LDT)
    /\ ti' = "TI_LDT"
    /\ UNCHANGED <<call, index, rpl, raw, via, text>>
    /\ UNCHANGED machVars

SelDisplay ==
    /\ via # "none" /\ text = <<>>
    /\ text' = fmt(sel)
    /\ UNCHANGED <<call, index, rpl, raw, via, ti, sel>>
    /\ UNCHANGED machVars

NextSel == SelNew \/ SelFromRaw \/ SelOrGdt \/ SelOrLdt \/ SelDisplay

SpecSel == InitSel /\ [][NextSel]_vars

NextWide == SelNew

SpecWide == InitWide /\ [][NextWide]_vars

(***************************************************************************)
(* Register loaders, the trampoline and the reader                         *)
(***************************************************************************)
Init ==
    /\ Idle
    /\ arch \in {"x86", "x86_64"}
    /\ rsp \in 0 .. StackWords
    /\ Boot

\* `movw $0, %<r>`: the processor checks the descriptor the selector names
\* (present, legal type, privilege rule) and either loads r or faults; the
\* descriptor tables are not this component's, so both outcomes can occur.
\* ss only takes a selector that requests the current privilege level.
MovSeg(r, name, s) ==
    /\ ~fault /\ nops < MaxOps
    /\ nops' = nops + 1
    /\ lastOp' = [name |-> name, bits |-> bits(s)]
    /\ \E ok \in BOOLEAN :
          IF ok /\ (r = "ss" => RplOf(bits(s)) = Cpl(seg)) THEN seg' = [seg EXCEPT ![r] = bits(s)] /\ fault' = FALSE
                ELSE seg' = seg /\ fault' = TRUE
    /\ UNCHANGED <<arch, rsp, stack, rax, pc, arg, segment, reads, pre>>
    /\ UNCHANGED selVars

load_ss ==
    /\ pc = "caller"
    /\ \E s \in SelArgs : MovSeg("ss", "load_ss", s)

load_ds ==
    /\ pc = "caller"
    /\ \E s \in SelArgs : MovSeg("ds", "load_ds", s)

load_es ==
    /\ pc = "caller"
    /\ \E s \in SelArgs : MovSeg("es", "load_es", s)

\* load_fs assembled with the register of its neighbour
load_fs_into_gs ==
    /\ pc = "caller"
    /\ \E s \in SelArgs : MovSeg("gs", "load_fs", s)

load_fs ==
    /\ pc = "caller"
    /\ \E s \in SelArgs : MovSeg("fs", "load_fs", s)

load_gs ==
    /\ pc = "caller"
    /\ \E s \in SelArgs : MovSeg("gs", "load_gs", s)

\* the reader assembled with the stack segment register
ReadSs(s) == s["ss"]

\* `mov %cs, $0`
ReadCs(s) == s["cs"]

\* the last two entries of a sequence
LastTwo(q) == IF Len(q) <= 2 THEN q ELSE SubSeq(q, Len(q) - 1, Len(q))

\* pub fn cs()
cs ==
    /\ pc = "caller" /\ ~fault
    /\ segment' = from_raw(ReadCs(seg))
    /\ reads' = LastTwo(Append(reads, [bits |-> bits(segment'), at |-> nops]))
    /\ lastOp' = [name |-> "cs", bits |-> bits(segment')]
    /\ UNCHANGED <<arch, seg, rsp, stack, rax, pc, arg, fault, pre, nops>>
    /\ UNCHANGED selVars

\* push one machine word; without room on the stack the processor faults
Push(v) ==
    IF (rsp - 1) \in StackAddrs
    THEN /\ stack' = [stack EXCEPT ![rsp - 1] = v]
         /\ rsp' = rsp - 1
         /\ fault' = FALSE
    ELSE /\ fault' = TRUE
         /\ UNCHANGED <<stack, rsp>>

\* set_cs(sel) called; `pushl $0` / `pushq $0` with $0 = sel.bits() as usize
set_cs_push_sel ==
    /\ pc = "caller" /\ ~fault /\ nops < MaxOps
    /\ \E s \in SelArgs :
          /\ arg' = bits(s)
          /\ lastOp' = [name |-> "set_cs", bits |-> bits(s)]
          /\ Push(bits(s))
    /\ nops' = nops + 1
    /\ reads' = <<>>
    /\ pre' = [rsp |-> rsp, stack |-> stack, cpl |-> Cpl(seg)]
    /\ pc' = IF fault' THEN pc ELSE IF arch = "x86_64" THEN "lea" ELSE "push_ret"
    /\ UNCHANGED <<arch, seg, rax, segment>>
    /\ UNCHANGED selVars

\* the lea resolving to the address after the label
set_cs_lea_off ==
    /\ pc = "lea" /\ ~fault
    /\ rax' = Label1 + 1
    /\ pc' = "push_ret"
    /\ UNCHANGED <<arch, seg, rsp, stack, arg, segment, fault, reads, lastOp, pre, nops>>
    /\ UNCHANGED selVars

\* x86_64 only: `leaq 1f(%rip), %rax`
set_cs_lea ==
    /\ pc = "lea" /\ ~fault
    /\ rax' = Label1
    /\ pc' = "push_ret"
    /\ UNCHANGED <<arch, seg, rsp, stack, arg, segment, fault, reads, lastOp, pre, nops>>
    /\ UNCHANGED selVars

\* the resumption address pushed twice
set_cs_push_ret_twice ==
    /\ pc = "push_ret" /\ ~fault
    /\ IF (rsp - 2) \in StackAddrs
       THEN /\ stack' = [stack EXCEPT ![rsp - 1] = Label1, ![rsp - 2] = Label1]
            /\ rsp' = rsp - 2
            /\ fault' = FALSE
       ELSE /\ fault' = TRUE
            /\ UNCHANGED <<stack, rsp>>
    /\ pc' = IF fault' THEN pc ELSE "lret"
    /\ UNCHANGED <<arch, seg, rax, arg, segment, reads, lastOp, pre, nops>>
    /\ UNCHANGED selVars

\* `pushl $$1f` (x86) / `pushq %rax` (x86_64)
set_cs_push_ret ==
    /\ pc = "push_ret" /\ ~fault
    /\ Push(IF arch = "x86_64" THEN rax ELSE Label1)
    /\ pc' = IF fault' THEN pc ELSE "lret"
    /\ UNCHANGED <<arch, seg, rax, arg, segment, reads, lastOp, pre, nops>>
    /\ UNCHANGED selVars

\* where execution continues after a far return to address ip
Resume(ip) == IF ip = Label1 THEN "1" ELSE "wild"

\* `lretl` / `lretq`: pops the instruction pointer, then the code selector.
\* A selector less privileged than the current level makes it a return to
\* an outer privilege level, which also pops the stack pointer and the
\* stack selector and nulls data segment registers the outer level may not
\* use; a more privileged or null code selector, a popped stack selector
\* that requests another level than the code selector or is null (outside
\* 64-bit mode, or for ring 3), or a descriptor the processor rejects,
\* faults.
set_cs_lret ==
    /\ pc = "lret" /\ ~fault
    /\ LET newip == stack[rsp]
           newcs == stack[rsp + 1] % U16Mod
       IN  \/ /\ fault' = TRUE
              /\ UNCHANGED <<seg, rsp, pc>>
           \/ /\ RplOf(newcs) = Cpl(seg) /\ ~IsNull(newcs)
              /\ seg' = [seg EXCEPT !["cs"] = newcs]
              /\ rsp' = rsp + 2
              /\ pc' = Resume(newip)
              /\ fault' = FALSE
           \/ /\ RplOf(newcs) > Cpl(seg) /\ ~IsNull(newcs)
              /\ (rsp + 3) \in StackAddrs
              /\ RplOf(stack[rsp + 3] % U16Mod) = RplOf(newcs)
              /\ ~(IsNull(stack[rsp + 3] % U16Mod) /\ (arch = "x86" \/ RplOf(newcs) = 3))
              /\ \E nulled \in SUBSET DataRegs :
                    seg' = [r \in SegRegs |->
                              IF r = "cs" THEN newcs
                              ELSE IF r = "ss" THEN stack[rsp + 3] % U16Mod
                              ELSE IF r \in nulled THEN 0
                              ELSE seg[r]]
              /\ rsp' = stack[rsp + 2]
              /\ pc' = Resume(newip)
              /\ fault' = FALSE
    /\ UNCHANGED <<arch, stack, rax, arg, segment, reads, lastOp, pre, nops>>
    /\ UNCHANGED selVars

\* label `1:` reached: inner and set_cs return to the caller
set_cs_return ==
    /\ pc = "1" /\ ~fault
    /\ pc' = "caller"
    /\ UNCHANGED <<arch, seg, rsp, stack, rax, arg, segment, fault, reads, lastOp, pre, nops>>
    /\ UNCHANGED selVars

Next ==
    \/ load_ss \/ load_ds \/ load_es \/ load_fs \/ load_gs
    \/ cs
    \/ set_cs_push_sel \/ set_cs_lea \/ set_cs_push_ret \/ set_cs_lret \/ set_cs_return

Spec == Init /\ [][Next]_vars

(***************************************************************************)
(* Properties of the value type (SpecSel, SpecWide)                        *)
(***************************************************************************)
\* C1: for every index in 0..8191 and every privilege level, the raw value r
\* of new(index, privilege) satisfies (r >> 3) = index and (r & 0b11) =
\* privilege.
C1_NewRoundTrip ==
    (via = "new" /\ ti = "none" /\ index \in 0 .. MaxIndex)
        => /\ Shr(bits(sel), 3) = index
           /\ BitAnd(bits(sel), 3) = rpl

C1_Witness ==
    /\ via = "new" /\ ti = "none"
    /\ index = MaxIndex /\ rpl = 3
    /\ bits(sel) = U16Mod - 5

\* C2: for every 16-bit value b, the raw-value accessor applied to
\* from_raw(b) returns exactly b; bits that are not named flags are kept.
C2_FromRawVerbatim == via = "from_raw" => bits(sel) = raw

C2_Witness ==
    /\ via = "from_raw"
    /\ raw = U16Mod - 1 - RPL_3
    /\ bits(sel) = raw

\* C3: new(index, privilege) with TI_LDT set has the local-table predicate
\* true and the global-table predicate false; with TI_GDT set it has the
\* global-table predicate true and the local-table predicate false.
C3_TableIndicator ==
    /\ (via = "new" /\ ti = "TI_LDT")
          => (contains(sel, TI_LDT) /\ ~contains(sel, TI_GDT))
    /\ (via = "new" /\ ti = "TI_GDT")
          => (contains(sel, TI_GDT) /\ ~contains(sel, TI_LDT))

\* C4: the rendering of a selector contains "Ring N segment selector." if
\* and only if the selector's two privilege bits equal N.
C4_RingFragments ==
    text # <<>> =>
        \A n \in PrivilegeLevel :
            HasFragment(text, RingFragment(n)) <=> (BitAnd(bits(sel), 3) = n)

\* C5: the rendering of new(index, privilege) begins "Index <index> in LDT
\* Table" when TI_LDT was set and "Index <index> in GDT Table" when it was
\* not.
C5_IndexAndTable ==
    (via = "new" /\ text # <<>>) =>
        BeginsWith(text, <<"Index ">> \o Dec(index) \o
                         <<" in ", IF ti = "TI_LDT" THEN "LDT Table" ELSE "GDT Table">>)

\* C8 as stated: some index in 8192..65535 and some privilege level p give
\* new(index, p) low three bits that differ from those of new(0, p); looked
\* up once a selector has been built.
C8_OverlapsLowBits ==
    via = "new" => \E i \in (MaxIndex + 1) .. (U16Mod - 1), p \in PrivilegeLevel :
        BitAnd(bits(new(i, p)), 7) # BitAnd(bits(new(0, p)), 7)

\* C8 amended: new neither masks nor rejects the index, and for every index
\* in 8192..65535 the u16 shift discards the index bits above bit 12, so the
\* low three bits of new(index, p) are those of new(0, p), namely p, and
\* the result is new(index mod 8192, p).
C8_HighBitsDiscarded ==
    (via = "new" /\ ti = "none" /\ index > MaxIndex)
        => /\ BitAnd(bits(sel), 7) = BitAnd(bits(new(0, rpl)), 7)
           /\ BitAnd(bits(sel), 7) = rpl
           /\ Shr(bits(sel), 3) = index % (MaxIndex + 1)

C8_Witness ==
    /\ via = "new" /\ ti = "none"
    /\ index = U16Mod - 1 /\ rpl = 0
    /\ bits(sel) = U16Mod - 8

(***************************************************************************)
(* Properties of the loaders, the trampoline and the reader (Spec)         *)
(***************************************************************************)
\* the selector requests ring 0 and names the global table (bit 2 clear)
Ring0Global(b) == RplOf(b) = 0 /\ (b \div 4) % 2 = 0

\* C6: set_cs(sel) with a ring-0, global-table selector that does not fault
\* leaves cs equal to sel's raw value and resumes at the label after the
\* far return, and a cs() read made right after it returns sel's raw value.
C6_ReloadThenRead ==
    [][ /\ (pc = "lret" /\ pc' # "lret" /\ ~fault' /\ Ring0Global(arg))
              => (pc' = "1" /\ seg'["cs"] = arg)
        /\ (lastOp.name = "set_cs" /\ Ring0Global(lastOp.bits) /\ lastOp'.name = "cs")
              => bits(segment') = lastOp.bits ]_vars

C6_Witness ==
    /\ lastOp.name = "cs" /\ nops = 1 /\ pc = "caller"
    /\ arg = bits(new(ArgIndex, 0))
    /\ seg["cs"] = arg /\ bits(segment) = arg
    /\ arg # bits(new(BootIndex, 0))

\* C7: two cs() reads with no set_cs between them return the same raw
\* value, also when loaders run between them, and cs() changes no
\* processor state.
C7_ReadsAgree ==
    [][ lastOp'.name = "cs"
          => /\ UNCHANGED <<seg, rsp, stack, rax, pc, fault>>
             /\ \A k \in 1 .. Len(reads') : reads'[k].bits = bits(segment') ]_vars

C7_Witness ==
    /\ lastOp.name = "cs" /\ Len(reads) = 2
    /\ reads[1].at < reads[2].at
    /\ reads[1].bits = reads[2].bits
    /\ seg["ss"] # 0 /\ seg["cs"] = reads[2].bits

\* the loader of a register
LoaderOf(r) == [ss |-> "load_ss", ds |-> "load_ds", es |-> "load_es",
                fs |-> "load_fs", gs |-> "load_gs"][r]

\* C9: after load_X(sel) that does not fault, register X holds sel's raw
\* value and every other segment register, cs included, is unchanged.
C9_LoaderFrame ==
    [][ \A r \in SegRegs \ {"cs"} :
          (lastOp'.name = LoaderOf(r) /\ nops' = nops + 1 /\ ~fault')
              => seg' = [seg EXCEPT ![r] = lastOp'.bits] ]_vars

C9_Witness ==
    /\ lastOp.name = "load_fs" /\ ~fault
    /\ seg["fs"] = lastOp.bits /\ seg["fs"] # 0
    /\ seg["gs"] = 0 /\ seg["cs"] = bits(new(BootIndex, 0))

\* set_cs has passed its far return without a fault
Reloaded == lastOp.name = "set_cs" /\ pc \in {"1", "caller"} /\ ~fault

\* the stack is as it was when set_cs began
Balanced ==
    /\ rsp = pre.rsp
    /\ \A a \in StackAddrs : a >= pre.rsp => stack[a] = pre.stack[a]

\* C10 as stated: whenever set_cs(sel) completes without a fault the stack
\* pointer equals its value before the call and no stack word at or above
\* it has changed.
C10_StackBalanced == Reloaded => Balanced

\* C10 amended: set_cs pushes the selector's raw value, then the resumption
\* address; when sel requests the current privilege level the far return
\* pops exactly those two, so on completion without a fault the stack
\* pointer and every stack word at or above it are as before the call.
C10_BalancedSamePrivilege ==
    (Reloaded /\ RplOf(arg) = pre.cpl)
        => /\ Balanced
           /\ stack[pre.rsp - 1] = arg
           /\ stack[pre.rsp - 2] = Label1

C10_Witness ==
    /\ Reloaded /\ pc = "1" /\ RplOf(arg) = pre.cpl
    /\ pre.rsp = 2 /\ rsp = 2
    /\ seg["cs"] = arg /\ arg = bits(new(ArgIndex, 0))

====
